---- MODULE Spec2Model ----
(***************************************************************************)
(* KYC expiry dashboard: the snapshot extractor (scripts/extract_from_html) *)
(* and the Streamlit app (app.py): load_data behind st.cache_data,          *)
(* filter_rows, the bucket counts of render_kpis / chart_buckets and the    *)
(* bucket x risk table of chart_stack.                                      *)
(*                                                                          *)
(* Strings are atoms whose characters are given by Chars, so that str(),    *)
(* lower() and the substring test of filter_rows work on characters.  A     *)
(* JSON value and a DataFrame cell are records [t |-> kind, v |-> text].    *)
(***************************************************************************)
EXTENDS Integers, Sequences, FiniteSets, TLC

VARIABLES
  file,        \* content of data/dashboard_data.json (DATA_PATH)
  cache,       \* st.cache_data's entry for load_data(DATA_PATH)
  html,        \* content of the extractor's source document
  extractErr,  \* how the last extract_data call ended
  stage,       \* where the last run of main() ended
  err,         \* the exception that ended the last run of main(), or "none"
  raw,         \* main(): raw, as returned by load_data
  df,          \* main(): df, as returned by load_data
  rm_choice,   \* main(): the selectbox's value
  search,      \* main(): the text input's value
  filtered,    \* main(): filter_rows(df, rm_choice, search)
  counts,      \* render_kpis: counts
  grouped,     \* chart_stack: grouped
  parsed,      \* whether the last load_data call ran the function body
  seen,        \* the content of DATA_PATH when load_data was last called
  wrote        \* whether the last extract_data call wrote its target

vars == <<file, cache, html, extractErr, stage, err, raw, df, rm_choice,
          search, filtered, counts, grouped, parsed, seen, wrote>>

(***************************************************************************)
(* Bounds of the model.                                                    *)
(***************************************************************************)
MaxRecords == 2   \* records in a snapshot file
MaxTags == 2      \* tags in a host document

(***************************************************************************)
(* Program constants.                                                      *)
(***************************************************************************)
BUCKET_ORDER == <<"Expired", "0-30 days", "31-60 days", "61-90 days", "90+ days">>
RISK_ORDER == <<"High", "Medium", "Low", "Unknown">>

\* The columns of a snapshot record, in the order render_table lists them.
COLUMNS == <<"customer_id", "customer_name", "risk_rating", "kyc_document_type",
             "doc_expiry_date", "days_to_expiry", "expiry_bucket",
             "relationship_manager">>

Range(s) == {s[i] : i \in 1..Len(s)}

(***************************************************************************)
(* Python str: the characters of the strings that occur in the model.      *)
(***************************************************************************)
Chars(s) ==
  CASE s = "" -> <<>>
    [] s = "All" -> <<"A", "l", "l">>
    [] s = "Aarav" -> <<"A", "a", "r", "a", "v">>
    [] s = "Johnson" -> <<"J", "o", "h", "n", "s", "o", "n">>
    [] s = "Ghost" -> <<"G", "h", "o", "s", "t">>
    [] s = "High" -> <<"H", "i", "g", "h">>
    [] s = "Medium" -> <<"M", "e", "d", "i", "u", "m">>
    [] s = "Low" -> <<"L", "o", "w">>
    [] s = "Unknown" -> <<"U", "n", "k", "n", "o", "w", "n">>
    [] s = "Critical" -> <<"C", "r", "i", "t", "i", "c", "a", "l">>
    [] s = "Expired" -> <<"E", "x", "p", "i", "r", "e", "d">>
    [] s = "0-30 days" -> <<"0", "-", "3", "0", " ", "d", "a", "y", "s">>
    [] s = "31-60 days" -> <<"3", "1", "-", "6", "0", " ", "d", "a", "y", "s">>
    [] s = "61-90 days" -> <<"6", "1", "-", "9", "0", " ", "d", "a", "y", "s">>
    [] s = "90+ days" -> <<"9", "0", "+", " ", "d", "a", "y", "s">>
    [] s = "Overdue" -> <<"O", "v", "e", "r", "d", "u", "e">>
    [] s = "12" -> <<"1", "2">>
    [] s = "N/A" -> <<"N", "/", "A">>
    [] s = "2025-01-31" -> <<"2", "0", "2", "5", "-", "0", "1", "-", "3", "1">>
    [] s = "soon" -> <<"s", "o", "o", "n">>
    [] s = "C1" -> <<"C", "1">>
    [] s = "Acme" -> <<"A", "c", "m", "e">>
    [] s = "passport" -> <<"p", "a", "s", "s", "p", "o", "r", "t">>
    [] s = "nan" -> <<"n", "a", "n">>
    [] s = "None" -> <<"N", "o", "n", "e">>
    [] s = "NaT" -> <<"N", "a", "T">>
    [] s = "AARAV" -> <<"A", "A", "R", "A", "V">>
    [] s = "exp" -> <<"e", "x", "p">>
    [] s = "script" -> <<"s", "c", "r", "i", "p", "t">>
    [] s = "SCRIPT" -> <<"S", "C", "R", "I", "P", "T">>
    [] s = "div" -> <<"d", "i", "v">>
    [] s = "dashboard-data" -> <<"d", "a", "s", "h", "b", "o", "a", "r", "d", "-", "d", "a", "t", "a">>
    [] s = "Dashboard-Data" -> <<"D", "a", "s", "h", "b", "o", "a", "r", "d", "-", "D", "a", "t", "a">>
    [] s = "other" -> <<"o", "t", "h", "e", "r">>

UpperCase == <<"A", "B", "C", "D", "E", "F", "G", "H", "I", "J", "K", "L", "M",
               "N", "O", "P", "Q", "R", "S", "T", "U", "V", "W", "X", "Y", "Z">>
LowerCase == <<"a", "b", "c", "d", "e", "f", "g", "h", "i", "j", "k", "l", "m",
               "n", "o", "p", "q", "r", "s", "t", "u", "v", "w", "x", "y", "z">>

\* str.lower() on one character.
LowerChar(c) ==
  IF \E i \in 1..Len(UpperCase) : UpperCase[i] = c
  THEN LowerCase[CHOOSE i \in 1..Len(UpperCase) : UpperCase[i] = c]
  ELSE c

\* str.lower()
Lower(cs) == [i \in 1..Len(cs) |-> LowerChar(cs[i])]

\* Python's `needle in hay` on strings.
Contains(needle, hay) ==
  \E k \in 0..(Len(hay) - Len(needle)) : SubSeq(hay, k + 1, k + Len(needle)) = needle

Digits == {"0", "1", "2", "3", "4", "5", "6", "7", "8", "9"}

\* The texts pd.to_numeric parses, restricted to integer literals.
IsIntText(cs) ==
  LET body == IF Len(cs) > 0 /\ cs[1] = "-" THEN Tail(cs) ELSE cs
  IN Len(body) > 0 /\ \A i \in 1..Len(body) : body[i] \in Digits

\* The texts pd.to_datetime parses, restricted to ISO dates YYYY-MM-DD.
IsIsoDate(cs) ==
  /\ Len(cs) = 10
  /\ \A i \in {1, 2, 3, 4, 6, 7, 9, 10} : cs[i] \in Digits
  /\ cs[5] = "-" /\ cs[8] = "-"

(***************************************************************************)
(* JSON values and DataFrame cells.                                        *)
(***************************************************************************)
JStr(s) == [t |-> "str", v |-> s]
JNum(s) == [t |-> "int", v |-> s]      \* a JSON integer, by its decimal text
JNull == [t |-> "null", v |-> ""]

NaN == [t |-> "nan", v |-> ""]         \* numpy.nan
None == [t |-> "None", v |-> ""]       \* Python None in an object column
NaT == [t |-> "NaT", v |-> ""]         \* pandas.NaT
IsNA(cell) == cell.t \in {"nan", "None", "NaT"}

\* str(v) for a cell value v, as row.values yields it.
Str(cell) ==
  CASE cell.t = "str" -> Chars(cell.v)
    [] cell.t = "int" -> Chars(cell.v)
    [] cell.t = "float" -> Chars(cell.v) \o <<".", "0">>
    [] cell.t = "date" -> Chars(cell.v) \o <<" ", "0", "0", ":", "0", "0", ":", "0", "0">>
    [] cell.t = "nan" -> Chars("nan")
    [] cell.t = "None" -> Chars("None")
    [] cell.t = "NaT" -> Chars("NaT")

(***************************************************************************)
(* DataFrames: the column labels and the rows, each with its index label.  *)
(***************************************************************************)
EmptyFrame == [cols |-> <<>>, rows |-> <<>>]          \* pd.DataFrame()

ColSet(d) == Range(d.cols)

\* DataFrame.empty
Empty(d) == Len(d.cols) = 0 \/ Len(d.rows) = 0

\* pd.DataFrame(records) for a list of dicts: the columns are the keys that
\* occur, a missing key is NaN, a null is None (NaN in a numeric column).
DataFrame(records) ==
  LET n == Len(records)
      Occurs(c) == \E i \in 1..n : c \in DOMAIN records[i]
      cols == SelectSeq(COLUMNS, Occurs)
      Numeric(c) ==
        /\ \E i \in 1..n : c \in DOMAIN records[i] /\ records[i][c].t = "int"
        /\ \A i \in 1..n : c \in DOMAIN records[i] => records[i][c].t \in {"int", "null"}
      Float(c) == Numeric(c) /\ \E i \in 1..n : c \notin DOMAIN records[i] \/ records[i][c].t = "null"
      Cell(r, c) ==
        IF c \notin DOMAIN r THEN NaN
        ELSE IF r[c].t = "null" THEN (IF Numeric(c) THEN NaN ELSE None)
        ELSE IF r[c].t = "int" /\ Float(c) THEN [t |-> "float", v |-> r[c].v]
        ELSE r[c]
  IN [cols |-> cols,
      rows |-> [i \in 1..n |->
                 [idx |-> i - 1, cells |-> [c \in Range(cols) |-> Cell(records[i], c)]]]]

\* df[col]: the column as a Series, one value per row.
Column(d, col) == [i \in 1..Len(d.rows) |-> d.rows[i].cells[col]]

\* df[col] = series
SetColumn(d, col, series) ==
  [d EXCEPT !.rows = [i \in 1..Len(d.rows) |->
     [d.rows[i] EXCEPT !.cells[col] = series[i]]]]

\* Series.fillna("Unknown")
FillUnknown(series) ==
  [i \in 1..Len(series) |-> IF IsNA(series[i]) THEN JStr("Unknown") ELSE series[i]]

\* pd.Categorical(series, categories=...): a value outside the categories is NaN.
Categorical(series, categories) ==
  [i \in 1..Len(series) |->
     IF series[i].t = "str" /\ series[i].v \in Range(categories) THEN series[i] ELSE NaN]

\* pd.to_numeric(errors="coerce") on one value; the dtype is settled after.
CoerceNumber(cell) ==
  CASE cell.t \in {"int", "float"} -> cell
    [] cell.t = "str" /\ IsIntText(Chars(cell.v)) -> [t |-> "int", v |-> cell.v]
    [] OTHER -> NaN

\* pd.to_numeric(series, errors="coerce"): int64 when no value is NaN,
\* float64 otherwise.
ToNumeric(series) ==
  LET coerced == [i \in 1..Len(series) |-> CoerceNumber(series[i])]
      anyNaN == \E i \in 1..Len(coerced) : coerced[i].t \in {"nan", "float"}
  IN [i \in 1..Len(coerced) |->
        IF anyNaN /\ coerced[i].t = "int"
        THEN [t |-> "float", v |-> coerced[i].v]
        ELSE coerced[i]]

\* pd.to_datetime(series, errors="coerce")
ToDatetime(series) ==
  [i \in 1..Len(series) |->
     IF series[i].t = "str" /\ IsIsoDate(Chars(series[i].v))
     THEN [t |-> "date", v |-> series[i].v]
     ELSE NaT]

(***************************************************************************)
(* The snapshot file.  Its text is modelled by what json.loads makes of it: *)
(* no file, text that is not JSON, JSON that is no object, or an object     *)
(* with optional "records" and "tabs".                                      *)
(***************************************************************************)
EmptyObject == [hasRecords |-> FALSE, records |-> <<>>, tabs |-> <<>>]    \* {}

Missing == [exists |-> FALSE, valid |-> FALSE, isObject |-> FALSE, obj |-> EmptyObject]
InvalidText == [exists |-> TRUE, valid |-> FALSE, isObject |-> FALSE, obj |-> EmptyObject]
NonObject == [exists |-> TRUE, valid |-> TRUE, isObject |-> FALSE, obj |-> EmptyObject]
ObjectFile(o) == [exists |-> TRUE, valid |-> TRUE, isObject |-> TRUE, obj |-> o]
Snapshot(records, tabs) ==
  ObjectFile([hasRecords |-> TRUE, records |-> records, tabs |-> tabs])

\* raw.get("records", [])
GetRecords(o) == IF o.hasRecords THEN o.records ELSE <<>>

Ok(r, d) == [err |-> "none", raw |-> r, df |-> d]
Raise(e) == [err |-> e, raw |-> EmptyObject, df |-> EmptyFrame]

\* load_data, lines 59-63: the column assignments, in the order of the code.
Normalise(d) ==
  LET a == SetColumn(d, "risk_rating", FillUnknown(Column(d, "risk_rating")))
      b == SetColumn(a, "expiry_bucket", Categorical(Column(a, "expiry_bucket"), BUCKET_ORDER))
      e == SetColumn(b, "risk_rating", Categorical(Column(b, "risk_rating"), RISK_ORDER))
      g == SetColumn(e, "days_to_expiry", ToNumeric(Column(e, "days_to_expiry")))
  IN SetColumn(g, "doc_expiry_date", ToDatetime(Column(g, "doc_expiry_date")))

\* The body of load_data(path) on a file in state f.
load_data(f) ==
  IF ~f.exists THEN Ok(EmptyObject, EmptyFrame)
  ELSE IF ~f.valid THEN Raise("JSONDecodeError")           \* json.loads
  ELSE IF ~f.isObject THEN Raise("AttributeError")          \* raw.get
  ELSE LET d == DataFrame(GetRecords(f.obj))
       IN IF Empty(d) THEN Ok(f.obj, d)
          ELSE IF \E c \in {"risk_rating", "expiry_bucket", "days_to_expiry",
                            "doc_expiry_date"} : c \notin ColSet(d)
               THEN Raise("KeyError")                        \* df[c]
          ELSE Ok(f.obj, Normalise(d))

NoEntry == [has |-> FALSE, value |-> Raise("none")]

\* @st.cache_data: the entry is keyed by the function and its argument, the
\* path; a call that raises stores nothing.
CachedLoad(entry, f) == IF entry.has THEN entry.value ELSE load_data(f)

CacheAfter(entry, f) ==
  IF ~entry.has /\ load_data(f).err = "none"
  THEN [has |-> TRUE, value |-> load_data(f)]
  ELSE entry

(***************************************************************************)
(* filter_rows                                                             *)
(***************************************************************************)
\* df[mask] for a boolean mask: the rows whose mask is true, in order, with
\* their index labels.
Select(d, mask) ==
  LET kept == SelectSeq([i \in 1..Len(d.rows) |-> i], LAMBDA i : mask[i])
  IN [d EXCEPT !.rows = [k \in 1..Len(kept) |-> d.rows[kept[k]]]]

\* lambda row: any(q in str(v).lower() for v in row.values)
RowMatches(row, q) == \E c \in DOMAIN row.cells : Contains(q, Lower(Str(row.cells[c])))

\* Lines 73-76 without line 74: the query is not lower-cased.
TextFilterNoLower(d, query) ==
  IF query = "" THEN d
  ELSE IF Len(d.rows) = 0 THEN [cols |-> <<>>, rows |-> <<>>]
  ELSE Select(d, [i \in 1..Len(d.rows) |-> RowMatches(d.rows[i], Chars(query))])

\* Lines 73-76.  On a frame with no rows DataFrame.apply(axis=1) returns an
\* empty float Series, which is no boolean indexer: filtered[mask] then
\* selects the (empty) list of columns.
TextFilter(d, query) ==
  IF query = "" THEN d
  ELSE IF Len(d.rows) = 0 THEN [cols |-> <<>>, rows |-> <<>>]
  ELSE Select(d, [i \in 1..Len(d.rows) |-> RowMatches(d.rows[i], Lower(Chars(query)))])

\* Lines 71-72.
ManagerFilter(d, rm) ==
  IF rm # "" /\ rm # "All"
  THEN Select(d, [i \in 1..Len(d.rows) |->
                    d.rows[i].cells["relationship_manager"] = JStr(rm)])
  ELSE d

filter_rows(d, rm, query) ==
  IF Empty(d) THEN d ELSE TextFilter(ManagerFilter(d, rm), query)

(***************************************************************************)
(* Aggregations                                                            *)
(***************************************************************************)
\* Series.value_counts() of a categorical column: every category, with the
\* number of rows holding it; NaN is not counted.
ValueCounts(d, col, categories) ==
  [k \in Range(categories) |->
     Cardinality({i \in 1..Len(d.rows) : d.rows[i].cells[col] = JStr(k)})]

\* df.groupby([a, b]).size(): one entry per pair of keys that occurs; a row
\* with NaN in a key is in no group.
GroupSize(d, a, b) ==
  LET Key(i) == <<d.rows[i].cells[a].v, d.rows[i].cells[b].v>>
      In(i) == ~IsNA(d.rows[i].cells[a]) /\ ~IsNA(d.rows[i].cells[b])
      rowsIn == {i \in 1..Len(d.rows) : In(i)}
  IN [k \in {Key(i) : i \in rowsIn} |-> Cardinality({i \in rowsIn : Key(i) = k})]

\* Without the reindex: the entries of the series alone.
SeriesItems(series, index) ==
  LET present == SelectSeq(index, LAMBDA k : k \in DOMAIN series)
  IN [i \in 1..Len(present) |-> [key |-> present[i], count |-> series[present[i]]]]

\* Series.reindex(index, fill_value=0): one entry per label of index, in order.
Reindex(series, index) ==
  [i \in 1..Len(index) |->
     [key |-> index[i],
      count |-> IF index[i] \in DOMAIN series THEN series[index[i]] ELSE 0]]

\* pd.MultiIndex.from_product([a, b])
FromProduct(a, b) ==
  [k \in 1..(Len(a) * Len(b)) |->
     <<a[((k - 1) \div Len(b)) + 1], b[((k - 1) % Len(b)) + 1]>>]

\* render_kpis / chart_buckets, line 81 and line 95.
BucketCounts(d) == Reindex(ValueCounts(d, "expiry_bucket", BUCKET_ORDER), BUCKET_ORDER)

\* chart_stack, lines 116-122.
chart_stack(d) ==
  LET idx == FromProduct(BUCKET_ORDER, RISK_ORDER)
      cells == Reindex(GroupSize(d, "expiry_bucket", "risk_rating"), idx)
  IN [i \in 1..Len(cells) |->
       [expiry_bucket |-> cells[i].key[1], risk_rating |-> cells[i].key[2],
        count |-> cells[i].count]]

\* main, lines 190-192: the selectbox's options, as a set.
rm_options(r, d) ==
  LET managers == {d.rows[i].cells["relationship_manager"].v :
                     i \in {j \in 1..Len(d.rows) :
                              ~IsNA(d.rows[j].cells["relationship_manager"])}}
  IN IF Len(r.tabs) > 0 THEN Range(r.tabs) \cup {"All"} ELSE {"All"} \cup managers

\* What the user can type in the search box.
Queries == {"", "AARAV", "exp", "nan"}

(***************************************************************************)
(* extract_data                                                            *)
(***************************************************************************)
\* A host document is a sequence of elements [name, id, quoted, body]: the
\* tag name, the value of its id attribute, whether that value is quoted,
\* and what json.loads makes of the stripped body.
Tag(name, id, quoted, body) == [name |-> name, id |-> id, quoted |-> quoted, body |-> body]

\* The pattern of line 10 under re.IGNORECASE: a script tag whose id, in
\* quotes, is dashboard-data.
MatchesPattern(tag) ==
  /\ Lower(Chars(tag.name)) = Chars("script")
  /\ tag.quoted
  /\ Lower(Chars(tag.id)) = Chars("dashboard-data")

\* re.search: the leftmost match, 0 when there is none.
Search(h) ==
  IF \E i \in 1..Len(h) : MatchesPattern(h[i])
  THEN CHOOSE i \in 1..Len(h) :
         MatchesPattern(h[i]) /\ \A j \in 1..(i - 1) : ~MatchesPattern(h[j])
  ELSE 0

Extracted(e, w, f) == [err |-> e, wrote |-> w, file |-> f]

\* extract_data with lines 17 and 18 swapped: the payload is written as found.
extract_data_unparsed(h, target) ==
  LET m == Search(h)
  IN IF m = 0 THEN Extracted("ValueError", FALSE, target)
     ELSE LET body == h[m].body
          IN IF ~body.valid THEN Extracted("JSONDecodeError", TRUE, body)
             ELSE IF ~body.isObject THEN Extracted("AttributeError", TRUE, body)
             ELSE Extracted("none", TRUE, body)

\* extract_data(source, target) on a source holding h.
extract_data(h, target) ==
  LET m == Search(h)
  IN IF m = 0 THEN Extracted("ValueError", FALSE, target)                \* line 15
     ELSE LET body == h[m].body
          IN IF ~body.valid THEN Extracted("JSONDecodeError", FALSE, target) \* line 17
             ELSE IF ~body.isObject
                  THEN Extracted("AttributeError", TRUE, body)          \* line 19
             ELSE Extracted("none", TRUE, body)

(***************************************************************************)
(* The inputs.                                                             *)
(***************************************************************************)
BaseRecord ==
  [customer_id |-> JStr("C1"), customer_name |-> JStr("Acme"),
   risk_rating |-> JStr("High"), kyc_document_type |-> JStr("passport"),
   doc_expiry_date |-> JStr("2025-01-31"), days_to_expiry |-> JNum("12"),
   expiry_bucket |-> JStr("Expired"), relationship_manager |-> JStr("Aarav")]

\* The records a snapshot file is made of: the base record, and the base
\* record with one field (three in the second) changed or left out.
RecordPool ==
  { BaseRecord,
    [BaseRecord EXCEPT !.relationship_manager = JStr("Johnson"),
                       !.risk_rating = JStr("Low"),
                       !.expiry_bucket = JStr("0-30 days")],
    [BaseRecord EXCEPT !.risk_rating = JNull],
    [BaseRecord EXCEPT !.risk_rating = JStr("Critical")],
    [BaseRecord EXCEPT !.expiry_bucket = JStr("Overdue")],
    [BaseRecord EXCEPT !.relationship_manager = JNull],
    [BaseRecord EXCEPT !.relationship_manager = JStr("")],
    [BaseRecord EXCEPT !.days_to_expiry = JStr("N/A")],
    [BaseRecord EXCEPT !.doc_expiry_date = JStr("soon")],
    [c \in (DOMAIN BaseRecord) \ {"risk_rating"} |-> BaseRecord[c]] }

RecordLists == UNION {[1..n -> RecordPool] : n \in 0..MaxRecords}

TabLists == {<<>>, <<"Aarav", "Ghost">>}

\* Every state of the snapshot file.
SnapshotFiles ==
  {Missing, InvalidText, NonObject, ObjectFile(EmptyObject)}
    \cup {Snapshot(rs, tabs) : rs \in RecordLists, tabs \in TabLists}

\* The files dropped at DATA_PATH while the app runs.
Drops ==
  { InvalidText, NonObject, ObjectFile(EmptyObject),
    Snapshot(<<BaseRecord>>, <<>>),
    Snapshot(<<[BaseRecord EXCEPT !.relationship_manager = JStr("Johnson")], BaseRecord>>, <<>>) }

Body(f) == [valid |-> f.valid, isObject |-> f.isObject, obj |-> f.obj]
FileOf(body) == [exists |-> TRUE, valid |-> body.valid, isObject |-> body.isObject, obj |-> body.obj]

TagPool ==
  { Tag("script", "dashboard-data", TRUE, Body(Snapshot(<<BaseRecord>>, <<>>))),
    Tag("SCRIPT", "Dashboard-Data", TRUE, Body(ObjectFile(EmptyObject))),
    Tag("script", "dashboard-data", TRUE, Body(InvalidText)),
    Tag("script", "dashboard-data", TRUE, Body(NonObject)),
    Tag("script", "dashboard-data", FALSE, Body(ObjectFile(EmptyObject))),
    Tag("script", "other", TRUE, Body(ObjectFile(EmptyObject))),
    Tag("div", "dashboard-data", TRUE, Body(ObjectFile(EmptyObject))) }

Documents == UNION {[1..n -> TagPool] : n \in 0..MaxTags}

(***************************************************************************)
(* State machine.                                                          *)
(***************************************************************************)
Blank ==
  /\ cache = NoEntry
  /\ extractErr = "idle" /\ wrote = FALSE
  /\ stage = "start" /\ err = "none"
  /\ raw = EmptyObject /\ df = EmptyFrame
  /\ rm_choice = "" /\ search = ""
  /\ filtered = EmptyFrame /\ counts = <<>> /\ grouped = <<>>
  /\ parsed = FALSE /\ seen = Missing

\* The app starts with no snapshot file.
Init == file = Missing /\ html = <<>> /\ Blank

\* The app starts on a snapshot file in any state.
InitLoad == file \in SnapshotFiles /\ html = <<>> /\ Blank

\* The extractor is run on any document, the target absent or present.
InitExtract ==
  /\ file \in {Missing, Snapshot(<<>>, <<>>)}
  /\ html \in Documents
  /\ Blank

\* What main() leaves when it ends before the filters are read.
Ended(s, e, r, d) ==
  /\ stage' = s /\ err' = e /\ raw' = r /\ df' = d
  /\ rm_choice' = "" /\ search' = "" /\ filtered' = EmptyFrame
  /\ counts' = <<>> /\ grouped' = <<>>

\* One script run of main(): load_data through the cache, then, with the
\* widgets' values rm and query, the filter and the aggregations.
Main ==
  LET res == CachedLoad(cache, file)
  IN /\ parsed' = ~cache.has
     /\ seen' = file
     /\ cache' = CacheAfter(cache, file)
     /\ UNCHANGED <<file, html, extractErr, wrote>>
     /\ IF res.err # "none" THEN Ended("load_data", res.err, EmptyObject, EmptyFrame)
        ELSE IF Empty(res.df) THEN Ended("no_data", "none", res.raw, res.df)
        ELSE \E rm \in rm_options(res.raw, res.df), query \in Queries :
               LET f == filter_rows(res.df, rm, query)
               IN /\ raw' = res.raw /\ df' = res.df
                  /\ rm_choice' = rm /\ search' = query /\ filtered' = f
                  /\ IF "expiry_bucket" \notin ColSet(f)
                     THEN /\ stage' = "render_kpis" /\ err' = "KeyError"
                          /\ counts' = <<>> /\ grouped' = <<>>
                     ELSE /\ stage' = "rendered" /\ err' = "none"
                          /\ counts' = BucketCounts(f)
                          /\ grouped' = chart_stack(f)

\* A file is dropped at DATA_PATH.
WriteSnapshot ==
  /\ \E f \in Drops : file' = f
  /\ UNCHANGED <<cache, html, extractErr, stage, err, raw, df, rm_choice,
                 search, filtered, counts, grouped, parsed, seen, wrote>>

\* The file at DATA_PATH is removed.
RemoveSnapshot ==
  /\ file.exists
  /\ file' = Missing
  /\ UNCHANGED <<cache, html, extractErr, stage, err, raw, df, rm_choice,
                 search, filtered, counts, grouped, parsed, seen, wrote>>

\* scripts/extract_from_html.py is run with the default output, DATA_PATH.
ExtractData ==
  LET out == extract_data(html, file)
  IN /\ extractErr' = out.err
     /\ wrote' = out.wrote
     /\ file' = IF out.wrote THEN FileOf(out.file) ELSE file
     /\ UNCHANGED <<cache, html, stage, err, raw, df, rm_choice, search,
                    filtered, counts, grouped, parsed, seen>>

Next == Main \/ WriteSnapshot \/ RemoveSnapshot
Spec == Init /\ [][Next]_vars

\* The first script run after the app starts.
FirstRun == stage = "start" /\ Main

NextLoad == FirstRun
SpecLoad == InitLoad /\ [][NextLoad]_vars

NextExtract == ExtractData
SpecExtract == InitExtract /\ [][NextExtract]_vars

(***************************************************************************)
(* Properties.                                                             *)
(***************************************************************************)
RECURSIVE SumCounts(_)
SumCounts(cells) == IF cells = <<>> THEN 0 ELSE Head(cells).count + SumCounts(Tail(cells))

\* main() got past load_data with a frame that is not empty and read the widgets.
Filtered == stage \in {"render_kpis", "rendered"}

\* The records of the snapshot file load_data last read.
SeenRecords == GetRecords(seen.obj)

\* C1: the bucket counts hold each bucket of BUCKET_ORDER once, in that
\* order, and sum to the number of records of the set they were computed on.
C1_BucketCountsSumToRecords ==
  stage = "rendered" =>
    /\ [i \in 1..Len(counts) |-> counts[i].key] = BUCKET_ORDER
    /\ SumCounts(counts) = Len(filtered.rows)

\* C2: the bucket x risk table has |BUCKET_ORDER| x |RISK_ORDER| cells, one
\* per pair of the cross product, and a pair that does not occur among the
\* records has count 0.
C2_CrossTabIsFullProduct ==
  stage = "rendered" =>
    /\ Len(grouped) = Len(BUCKET_ORDER) * Len(RISK_ORDER)
    /\ \A b \in Range(BUCKET_ORDER), r \in Range(RISK_ORDER) :
         /\ Cardinality({i \in 1..Len(grouped) :
                           grouped[i].expiry_bucket = b /\ grouped[i].risk_rating = r}) = 1
         /\ (~\E k \in 1..Len(filtered.rows) :
                /\ filtered.rows[k].cells["expiry_bucket"] = JStr(b)
                /\ filtered.rows[k].cells["risk_rating"] = JStr(r))
              => \A i \in 1..Len(grouped) :
                   grouped[i].expiry_bucket = b /\ grouped[i].risk_rating = r
                     => grouped[i].count = 0

\* C2 witness: a table computed on a single record, one cell counting it.
C2_Witness ==
  /\ stage = "rendered"
  /\ Len(filtered.rows) = 1
  /\ \E i \in 1..Len(grouped) : grouped[i].count = 1
  /\ \E i \in 1..Len(grouped) : grouped[i].count = 0

\* C3: the cells of the bucket x risk table sum to the number of records.
C3_CrossTabSumsToRecords ==
  stage = "rendered" => SumCounts(grouped) = Len(filtered.rows)

\* C4: after load_data every risk_rating is one of RISK_ORDER and every
\* expiry_bucket one of BUCKET_ORDER.
C4_LoadedValuesAreCanonical ==
  Filtered =>
    \A i \in 1..Len(df.rows) :
      /\ df.rows[i].cells["risk_rating"] \in {JStr(r) : r \in Range(RISK_ORDER)}
      /\ df.rows[i].cells["expiry_bucket"] \in {JStr(b) : b \in Range(BUCKET_ORDER)}

\* C5: load_data on a missing file gives an empty snapshot and no error, on
\* JSON without a records collection the same, and on text that is not JSON
\* an error and no snapshot.
C5_ThreeLoadOutcomes ==
  stage # "start" =>
    /\ ~seen.exists => stage = "no_data" /\ err = "none" /\ Empty(df)
    /\ (seen.exists /\ seen.valid /\ (~seen.isObject \/ ~seen.obj.hasRecords))
         => stage = "no_data" /\ err = "none" /\ Empty(df)
    /\ (seen.exists /\ ~seen.valid) => stage = "load_data" /\ err = "JSONDecodeError"

\* C6: every load_data call returns what the file holds at the time of the
\* call: the previous result when the file is unchanged, the new content
\* when it has changed.
C6_LoadReflectsFile ==
  stage # "start" =>
    LET fresh == load_data(seen)
    IN IF stage = "load_data" THEN fresh.err = err
       ELSE fresh.err = "none" /\ fresh.raw = raw /\ fresh.df = df

\* The lower-cased query occurs in the lower-cased text of some field of row.
TextOccurs(row, query) ==
  LET q == Chars(query)
  IN \E c \in DOMAIN row.cells :
       LET text == Str(row.cells[c])
       IN \E k \in 0..(Len(text) - Len(q)) :
            \A j \in 1..Len(q) : LowerChar(text[k + j]) = LowerChar(q[j])

\* filtered holds exactly the rows of df at the positions in wanted, in
\* df's order.
ExactlyInOrder(wanted) ==
  /\ \A i, j \in 1..Len(filtered.rows) : i < j => filtered.rows[i].idx < filtered.rows[j].idx
  /\ \A i \in 1..Len(filtered.rows) : filtered.rows[i] \in Range(df.rows)
  /\ \A i \in 1..Len(df.rows) : i \in wanted <=> df.rows[i] \in Range(filtered.rows)

\* C7 as stated: filter_rows keeps exactly the records whose manager is rm
\* (any, when rm is "All") and which contain the query (any, when it is
\* empty), in the order of the input.
C7_FilterAsStated ==
  Filtered =>
    ExactlyInOrder({i \in 1..Len(df.rows) :
      /\ rm_choice = "All" \/ df.rows[i].cells["relationship_manager"] = JStr(rm_choice)
      /\ search = "" \/ TextOccurs(df.rows[i], search)})

\* C7 amended: the manager filter is also off when rm is the empty string.
C7_FilterKeepsMatchesInOrder ==
  Filtered =>
    ExactlyInOrder({i \in 1..Len(df.rows) :
      /\ rm_choice \in {"All", ""} \/ df.rows[i].cells["relationship_manager"] = JStr(rm_choice)
      /\ search = "" \/ TextOccurs(df.rows[i], search)})

\* C7 witness: a manager and a query in upper case that together keep some
\* records and drop others.
C7_Witness ==
  /\ stage = "rendered"
  /\ rm_choice \notin {"All", ""}
  /\ search = "AARAV"
  /\ Len(filtered.rows) > 0
  /\ Len(filtered.rows) < Len(df.rows)

\* Some tag of the document carries the id dashboard-data.
Marked(h) == \E i \in 1..Len(h) : Lower(Chars(h[i].id)) = Chars("dashboard-data")

\* C8: extract_data fails with the not-found error when no tag is marked
\* dashboard-data, with the JSON error when the located block's body is not
\* JSON, the two errors differ, and the target is written only when the
\* block was located and its body parsed.
C8_ExtractErrors ==
  extractErr # "idle" =>
    /\ ~Marked(html) => extractErr = "ValueError"
    /\ (Search(html) # 0 /\ ~html[Search(html)].body.valid) => extractErr = "JSONDecodeError"
    /\ wrote => Search(html) # 0 /\ html[Search(html)].body.valid
    /\ wrote => file = FileOf(html[Search(html)].body)
    /\ ~wrote => extractErr \in {"ValueError", "JSONDecodeError"}

\* C8 witness: a document whose located block is not JSON, after others
\* that are, was refused and the target left as it was.
C8_Witness ==
  /\ extractErr = "JSONDecodeError"
  /\ ~wrote
  /\ file = Missing
  /\ Len(html) > 1

\* C9: a record whose relationship_manager is null or missing in the file
\* is loaded with relationship_manager "Unknown", is offered under that
\* name and is selected by it.
C9_NullManagerIsUnknown ==
  (Filtered /\ Len(SeenRecords) = Len(df.rows)) =>
    \A i \in 1..Len(df.rows) :
      ("relationship_manager" \notin DOMAIN SeenRecords[i]
         \/ SeenRecords[i]["relationship_manager"] = JNull)
        => /\ df.rows[i].cells["relationship_manager"] = JStr("Unknown")
           /\ Len(raw.tabs) = 0 => "Unknown" \in rm_options(raw, df)
           /\ df.rows[i] \in Range(filter_rows(df, "Unknown", "").rows)

\* C10: a file of valid JSON loads without error into as many records as it
\* lists, in order; "N/A" days and an unparseable date become the unknown
\* values, a missing risk_rating becomes Unknown, the identifying fields
\* are kept.
C10_BadFieldsNeverFailTheLoad ==
  (stage # "start" /\ seen.exists /\ seen.valid /\ seen.isObject) =>
    /\ stage # "load_data"
    /\ Len(SeenRecords) > 0 =>
         /\ Len(df.rows) = Len(SeenRecords)
         /\ \A i \in 1..Len(df.rows) :
              LET rec == SeenRecords[i]
                  row == df.rows[i]
              IN /\ row.idx = i - 1
                 /\ row.cells["customer_id"] = rec["customer_id"]
                 /\ row.cells["customer_name"] = rec["customer_name"]
                 /\ rec["days_to_expiry"] = JStr("N/A") => row.cells["days_to_expiry"] = NaN
                 /\ rec["doc_expiry_date"] = JStr("soon") => row.cells["doc_expiry_date"] = NaT
                 /\ "risk_rating" \notin DOMAIN rec => row.cells["risk_rating"] = JStr("Unknown")

====
